---- MODULE Spec2Model ----
(***************************************************************************)
(* The global theme registry of @instructure/ui-themeable                  *)
(* (packages/ui-themeable/src/registry.js).                                *)
(*                                                                         *)
(* JavaScript values are encoded as follows.                               *)
(*   undefined        [undef |-> TRUE]                                     *)
(*   null             [null  |-> TRUE]                                     *)
(*   a primitive p    [leaf  |-> p]                                        *)
(*   a plain object   [obj   |-> f], f a function from property names     *)
(*   property keys    strings; the absent key is the string "undefined",  *)
(*                    which is what an undefined key coerces to           *)
(* Registries are objects with identity: they live in heap and the        *)
(* module variables and the window slot hold references to them.           *)
(***************************************************************************)
EXTENDS Naturals, Sequences, FiniteSets, TLC

VARIABLES
    canUseDOM,              \* the environment has a window object
    window,                 \* window.GLOBAL_THEME_REGISTRY (a reference, NoReg if unset)
    GLOBAL_THEME_REGISTRY,  \* per loaded module instance: its module-level variable
    heap,                   \* registry objects by reference
    uidCount,               \* number of identifiers uid() has handed out
    last                    \* the last call: operation, arguments, outcome

vars == <<canUseDOM, window, GLOBAL_THEME_REGISTRY, heap, uidCount, last>>

----------------------------------------------------------------------------
(* Bounds *)

MaxRegistered == 2      \* length of registry.registered
MaxUid == 1             \* identifiers uid() can hand out

----------------------------------------------------------------------------
(* JavaScript values *)

Undef == [undef |-> TRUE]
Null == [null |-> TRUE]
Leaf(p) == [leaf |-> p]
Obj(f) == [obj |-> f]
EmptyFn == [k \in {} |-> Undef]
EmptyObj == Obj(EmptyFn)

isObject(x) == "obj" \in DOMAIN x
Keys(x) == IF isObject(x) THEN DOMAIN x.obj ELSE {}

UNDEFINED == "undefined"
NULL == "null"
Falsy(k) == k \in {UNDEFINED, NULL, ""}

DEFAULT_THEME_KEY == "@@themeableDefaultTheme"

\* overrides && Object.keys(overrides).length > 0
NonEmpty(overrides) == isObject(overrides) /\ Keys(overrides) # {}

\* { ...a, ...b } on two objects (undefined and null spread to nothing)
Spread(a, b) ==
    Obj([k \in Keys(a) \cup Keys(b) |->
            IF k \in Keys(b) THEN b.obj[k] ELSE a.obj[k]])

\* mergeDeep(target, source) of @instructure/ui-utils: source's values take
\* precedence at every nesting level, plain objects merge recursively, any
\* other value replaces; a non-object argument contributes nothing.
RECURSIVE mergeSourceIntoTarget(_, _)
mergeSourceIntoTarget(target, source) ==
    IF isObject(source)
    THEN Obj([k \in Keys(target) \cup Keys(source) |->
                IF k \notin Keys(source) THEN target.obj[k]
                ELSE IF k \in Keys(target) /\ isObject(target.obj[k])
                        /\ isObject(source.obj[k])
                     THEN mergeSourceIntoTarget(target.obj[k], source.obj[k])
                     ELSE source.obj[k]])
    ELSE Spread(target, EmptyObj)

mergeDeep(target, source) ==
    mergeSourceIntoTarget(mergeSourceIntoTarget(EmptyObj, target), source)

\* uid() of @instructure/ui-utils: a fresh identifier on every call; n is
\* the number of identifiers handed out before
UidNames == <<"uid1", "uid2", "uid3", "uid4">>
uid(n) == UidNames[n + 1]

Put(f, k, v) == (k :> v) @@ f

----------------------------------------------------------------------------
(* Themes and the registry *)

\* a theme object {key, variables, immutable}; an absent key is UNDEFINED,
\* absent variables are Undef, immutable holds the truthiness of the field
Theme(key, variables, immutable) ==
    [key |-> key, variables |-> variables, immutable |-> immutable]

\* the literal {} used as fallback theme
EmptyTheme == Theme(UNDEFINED, Undef, FALSE)

makeRegistry ==
    [defaultThemeKey |-> NULL,
     components |-> (DEFAULT_THEME_KEY :> EmptyFn),
     themes |-> EmptyFn,
     registered |-> << >>,
     overrides |-> Undef]

getDefaultThemeKey_registeredFirst(reg) ==
    IF Len(reg.registered) > 0 THEN reg.registered[1]
    ELSE IF ~Falsy(reg.defaultThemeKey) THEN reg.defaultThemeKey
         ELSE DEFAULT_THEME_KEY

getDefaultThemeKey(reg) ==
    IF ~Falsy(reg.defaultThemeKey) THEN reg.defaultThemeKey
    ELSE IF Len(reg.registered) > 0 /\ ~Falsy(reg.registered[1])
         THEN reg.registered[1]
         ELSE DEFAULT_THEME_KEY

getRegisteredTheme(reg, themeKey, defaultTheme) ==
    IF themeKey \in DOMAIN reg.themes THEN reg.themes[themeKey] ELSE defaultTheme

overrideThemeVariables_noGuard(reg, themeKey, overrides) ==
    mergeDeep(getRegisteredTheme(reg, themeKey, EmptyTheme).variables, overrides)

overrideThemeVariables(reg, themeKey, overrides) ==
    LET theme == getRegisteredTheme(reg, themeKey, EmptyTheme)
    IN  IF NonEmpty(overrides) /\ theme.immutable
        THEN theme.variables
        ELSE mergeDeep(theme.variables, overrides)

mergeWithDefaultThemeVariables_oneStage(reg, themeKey, overridesArg) ==
    LET overrides == IF overridesArg = Undef THEN EmptyObj ELSE overridesArg
    IN  IF ~Falsy(themeKey)
        THEN mergeDeep(getRegisteredTheme(reg, getDefaultThemeKey(reg), EmptyTheme).variables,
                       mergeDeep(getRegisteredTheme(reg, themeKey, EmptyTheme).variables,
                                 overrides))
        ELSE overrideThemeVariables(reg, getDefaultThemeKey(reg),
                 mergeDeep(IF isObject(reg.overrides) THEN reg.overrides ELSE EmptyObj,
                           overrides))

mergeWithDefaultThemeVariables_namedOnly(reg, themeKey, overridesArg) ==
    LET overrides == IF overridesArg = Undef THEN EmptyObj ELSE overridesArg
    IN  IF ~Falsy(themeKey)
        THEN overrideThemeVariables(reg, themeKey, overrides)
        ELSE overrideThemeVariables(reg, getDefaultThemeKey(reg),
                 mergeDeep(IF isObject(reg.overrides) THEN reg.overrides ELSE EmptyObj,
                           overrides))

mergeWithDefaultThemeVariables_overridesLast(reg, themeKey, overridesArg) ==
    LET overrides == IF overridesArg = Undef THEN EmptyObj ELSE overridesArg
        defaultOverrides ==
            IF isObject(reg.overrides) THEN reg.overrides ELSE EmptyObj
        defaultThemeKey == getDefaultThemeKey(reg)
    IN  IF ~Falsy(themeKey)
        THEN mergeDeep(overrideThemeVariables(reg, defaultThemeKey,
                           overrideThemeVariables(reg, themeKey, EmptyObj)),
                       overrides)
        ELSE mergeDeep(overrideThemeVariables(reg, defaultThemeKey, defaultOverrides),
                       overrides)

mergeWithDefaultThemeVariables(reg, themeKey, overridesArg) ==
    LET overrides == IF overridesArg = Undef THEN EmptyObj ELSE overridesArg
        defaultOverrides ==
            IF isObject(reg.overrides) THEN reg.overrides ELSE EmptyObj
        defaultThemeKey == getDefaultThemeKey(reg)
    IN  IF ~Falsy(themeKey)
        THEN overrideThemeVariables(reg, defaultThemeKey,
                 overrideThemeVariables(reg, themeKey, overrides))
        ELSE overrideThemeVariables(reg, defaultThemeKey,
                 mergeDeep(defaultOverrides, overrides))

getTheme(reg, themeKey) ==
    LET variables == getRegisteredTheme(reg, themeKey, EmptyTheme).variables
    IN  IF isObject(variables) THEN variables ELSE EmptyObj

----------------------------------------------------------------------------
(* Component style functions *)

Threw == [threw |-> TRUE]
isThrown(x) == "threw" \in DOMAIN x

\* variables[k] on a variables object
Prop(variables, k) ==
    IF k \in Keys(variables) THEN variables.obj[k] ELSE Undef

\* The bodies of the caller-supplied style functions.  Reading a property of
\* undefined variables raises a TypeError.
Apply(body, variables) ==
    CASE body = "base" ->
            IF ~isObject(variables) THEN Threw
            ELSE Obj(("color" :> Prop(variables, "color")) @@ ("z" :> Leaf("1")))
      [] body = "brand" ->
            IF ~isObject(variables) THEN Threw
            ELSE Obj(("bg" :> Prop(variables, "color")) @@ ("z" :> Leaf("2")))
      [] body = "plain" -> Obj("w" :> Leaf("0"))
      [] OTHER -> Threw

\* a function object: its body and the own properties attached to it (each
\* property name is taken as a theme key); anything else is not callable
Fn(body, props) == [body |-> body, props |-> props]
NotFn == [notfn |-> TRUE]
isFunction(f) == "body" \in DOMAIN f
NotCallable == "notfn"

\* entries of the components buckets: the function as registered, or the
\* wrapper makeComponentTheme builds around it for one theme key
Raw(f) == [raw |-> f]
makeComponentTheme(componentThemeFunction, themeKey) ==
    [wrap |-> componentThemeFunction, themeKey |-> themeKey]

\* the wrapper's body, makeComponentTheme's inner function
CallWrapper_baseOnly(f, themeKey, variables) ==
    Apply(f.body, variables)

CallWrapper(f, themeKey, variables) ==
    LET theme == IF isFunction(f) THEN Apply(f.body, variables) ELSE EmptyObj
    IN  IF isThrown(theme) THEN Threw
        ELSE IF themeKey \in DOMAIN f.props /\ f.props[themeKey] # NotCallable
             THEN LET special == Apply(f.props[themeKey], variables)
                  IN  IF isThrown(special) THEN Threw
                      ELSE Spread(theme, special)
             ELSE theme

\* entry(variables)
Call(entry, variables) ==
    IF "raw" \in DOMAIN entry
    THEN Apply(entry.raw.body, variables)
    ELSE CallWrapper(entry.wrap, entry.themeKey, variables)

\* component keys are Symbols or plain strings
ComponentKeys == {"Sym(K)", "Sym(L)", "strK"}
isSymbol(componentKey) == componentKey \in {"Sym(K)", "Sym(L)"}

Bucket(reg, t) ==
    IF t \in DOMAIN reg.components THEN reg.components[t] ELSE EmptyFn

getRegisteredComponents_defaultWins(reg, themeKey) ==
    LET t == IF ~Falsy(themeKey) THEN themeKey ELSE getDefaultThemeKey(reg)
        d == Bucket(reg, DEFAULT_THEME_KEY)
        b == Bucket(reg, t)
    IN  [k \in DOMAIN d \cup DOMAIN b |-> IF k \in DOMAIN d THEN d[k] ELSE b[k]]

getRegisteredComponents(reg, themeKey) ==
    LET t == IF ~Falsy(themeKey) THEN themeKey ELSE getDefaultThemeKey(reg)
        d == Bucket(reg, DEFAULT_THEME_KEY)
        b == Bucket(reg, t)
    IN  [k \in DOMAIN d \cup DOMAIN b |-> IF k \in DOMAIN b THEN b[k] ELSE d[k]]

generateTheme_allKeys(reg, themeKey, overrides) ==
    LET components == getRegisteredComponents(reg, themeKey)
        variables == mergeWithDefaultThemeVariables(reg, themeKey, overrides)
    IN  IF \E k \in DOMAIN components : isThrown(Call(components[k], variables))
        THEN Threw
        ELSE Obj([k \in DOMAIN components |-> Call(components[k], variables)])

generateTheme_defaultBucketOnly(reg, themeKey, overrides) ==
    LET components == Bucket(reg, DEFAULT_THEME_KEY)
        variables == mergeWithDefaultThemeVariables(reg, themeKey, overrides)
        symbols == {k \in DOMAIN components : isSymbol(k)}
    IN  IF \E k \in symbols : isThrown(Call(components[k], variables))
        THEN Threw
        ELSE Obj([k \in symbols |-> Call(components[k], variables)])

generateTheme_skipThrowing(reg, themeKey, overrides) ==
    LET components == getRegisteredComponents(reg, themeKey)
        variables == mergeWithDefaultThemeVariables(reg, themeKey, overrides)
        symbols == {k \in DOMAIN components : isSymbol(k)}
    IN  Obj([k \in {q \in symbols : ~isThrown(Call(components[q], variables))} |->
                Call(components[k], variables)])

generateTheme(reg, themeKey, overrides) ==
    LET components == getRegisteredComponents(reg, themeKey)
        variables == mergeWithDefaultThemeVariables(reg, themeKey, overrides)
        symbols == {k \in DOMAIN components : isSymbol(k)}
    IN  IF \E k \in symbols : isThrown(Call(components[k], variables))
        THEN Threw
        ELSE Obj([k \in symbols |-> Call(components[k], variables)])

generateComponentTheme_alwaysMerge(reg, componentKey, themeKey, overrides) ==
    LET variables == mergeWithDefaultThemeVariables(reg, themeKey, Undef)
        t == IF ~Falsy(themeKey) THEN themeKey ELSE getDefaultThemeKey(reg)
        components == getRegisteredComponents(reg, t)
        called == IF componentKey \in DOMAIN components
                  THEN Call(components[componentKey], variables)
                  ELSE EmptyObj
        componentTheme == IF isThrown(called) THEN EmptyObj ELSE called
    IN  Spread(componentTheme, overrides)

generateComponentTheme_noCatch(reg, componentKey, themeKey, overrides) ==
    LET variables == mergeWithDefaultThemeVariables(reg, themeKey, Undef)
        t == IF ~Falsy(themeKey) THEN themeKey ELSE getDefaultThemeKey(reg)
        components == getRegisteredComponents(reg, t)
        called == IF componentKey \in DOMAIN components
                  THEN Call(components[componentKey], variables)
                  ELSE EmptyObj
        theme == getRegisteredTheme(reg, t, EmptyTheme)
    IN  IF isThrown(called) THEN Threw
        ELSE IF NonEmpty(overrides) /\ theme.immutable
             THEN called
             ELSE Spread(called, overrides)

generateComponentTheme(reg, componentKey, themeKey, overrides) ==
    LET variables == mergeWithDefaultThemeVariables(reg, themeKey, Undef)
        t == IF ~Falsy(themeKey) THEN themeKey ELSE getDefaultThemeKey(reg)
        components == getRegisteredComponents(reg, t)
        called == IF componentKey \in DOMAIN components
                  THEN Call(components[componentKey], variables)
                  ELSE EmptyObj
        componentTheme == IF isThrown(called) THEN EmptyObj ELSE called
        theme == getRegisteredTheme(reg, t, EmptyTheme)
    IN  IF NonEmpty(overrides) /\ theme.immutable
        THEN componentTheme
        ELSE Spread(componentTheme, overrides)

----------------------------------------------------------------------------
(* Operations that change a registry *)

setDefaultTheme_keepOverrides(reg, themeKey, overrides, immutable) ==
    LET theme == getRegisteredTheme(reg, themeKey, EmptyTheme)
    IN  [reg EXCEPT
            !.themes = Put(reg.themes, themeKey,
                           [theme EXCEPT !.immutable = immutable]),
            !.defaultThemeKey = themeKey]

setDefaultTheme(reg, themeKey, overrides, immutable) ==
    LET theme == getRegisteredTheme(reg, themeKey, EmptyTheme)
    IN  [reg EXCEPT
            !.themes = Put(reg.themes, themeKey,
                           [theme EXCEPT !.immutable = immutable]),
            !.defaultThemeKey = themeKey,
            !.overrides = overrides]

registerTheme_once(reg, theme, n) ==
    LET key == IF ~Falsy(theme.key) THEN theme.key ELSE uid(n)
    IN  [reg EXCEPT
            !.themes = Put(reg.themes, key, theme),
            !.registered = IF \E j \in DOMAIN reg.registered : reg.registered[j] = key
                           THEN reg.registered
                           ELSE Append(reg.registered, key)]

registerTheme_storeUnderThemeKey(reg, theme, n) ==
    LET key == IF ~Falsy(theme.key) THEN theme.key ELSE uid(n)
    IN  [reg EXCEPT
            !.themes = Put(reg.themes, theme.key, theme),
            !.registered = Append(reg.registered, key)]

registerTheme(reg, theme, n) ==
    LET key == IF ~Falsy(theme.key) THEN theme.key ELSE uid(n)
    IN  [reg EXCEPT
            !.themes = Put(reg.themes, key, theme),
            !.registered = Append(reg.registered, key)]

RECURSIVE storeWrappers(_, _, _, _)
storeWrappers(components, componentKey, f, themeKeys) ==
    IF themeKeys = {} THEN components
    ELSE LET themeKey == CHOOSE k \in themeKeys : TRUE
             bucket == IF themeKey \in DOMAIN components
                       THEN components[themeKey] ELSE EmptyFn
         IN  storeWrappers(
                 Put(components, themeKey,
                     Put(bucket, componentKey, makeComponentTheme(f, themeKey))),
                 componentKey, f, themeKeys \ {themeKey})

\* registry.components[DEFAULT_THEME_KEY][componentKey] = ... raises a
\* TypeError when the registry has no default bucket
registerComponentThemeThrows(reg, f) ==
    isFunction(f) /\ DEFAULT_THEME_KEY \notin DOMAIN reg.components

registerComponentTheme(reg, componentKey, f) ==
    IF ~isFunction(f) \/ registerComponentThemeThrows(reg, f) THEN reg
    ELSE [reg EXCEPT !.components =
            storeWrappers(
                Put(reg.components, DEFAULT_THEME_KEY,
                    Put(reg.components[DEFAULT_THEME_KEY], componentKey, Raw(f))),
                componentKey, f, DOMAIN f.props)]

----------------------------------------------------------------------------
(* Registry references: the module variable, the window slot *)

NoReg == 0
Instances == DOMAIN GLOBAL_THEME_REGISTRY

getRegistry_local(i) == GLOBAL_THEME_REGISTRY[i]

\* the reference getRegistry() returns in module instance i
getRegistry(i) ==
    IF ~canUseDOM THEN GLOBAL_THEME_REGISTRY[i]
    ELSE IF window = NoReg THEN GLOBAL_THEME_REGISTRY[i] ELSE window

\* window.GLOBAL_THEME_REGISTRY after getRegistry() in module instance i
windowAfterGet(i) ==
    IF canUseDOM /\ window = NoReg THEN GLOBAL_THEME_REGISTRY[i] ELSE window

\* Objects no reference reaches are collected and the live ones are numbered
\* in the order window, module variables, last.ref reach them.
Roots(w, g, l) == <<w>> \o [i \in 1..Cardinality(DOMAIN g) |-> g[i]] \o <<l.ref>>
FirstAt(roots, r) == CHOOSE j \in DOMAIN roots :
    roots[j] = r /\ \A m \in DOMAIN roots : roots[m] = r => j <= m
Live(roots) == {roots[j] : j \in DOMAIN roots} \ {NoReg}
Rank(roots, r) ==
    IF r = NoReg THEN NoReg
    ELSE Cardinality({q \in Live(roots) : FirstAt(roots, q) <= FirstAt(roots, r)})

Collect(w, g, h, l) ==
    LET roots == Roots(w, g, l)
    IN  /\ window' = Rank(roots, w)
        /\ GLOBAL_THEME_REGISTRY' = [i \in DOMAIN g |-> Rank(roots, g[i])]
        /\ heap' = [n \in 1..Cardinality(Live(roots)) |->
                        h[CHOOSE r \in Live(roots) : Rank(roots, r) = n]]
        /\ last' = [l EXCEPT !.ref = Rank(roots, l.ref)]

\* a reference no live object has
Fresh == Cardinality(DOMAIN heap) + 1

\* an operation of instance i that reads the registry and leaves it as reg
Touch(i, reg, l) ==
    Collect(windowAfterGet(i), GLOBAL_THEME_REGISTRY,
            [heap EXCEPT ![getRegistry(i)] = reg], l)

TheRegistry(i) == heap[getRegistry(i)]

----------------------------------------------------------------------------
(* Inputs *)

VBlue == Obj(("color" :> Leaf("blue")) @@ ("nest" :> Obj("x" :> Leaf("1"))))
VRed == Obj(("color" :> Leaf("red")) @@ ("nest" :> Obj("y" :> Leaf("2"))))
OGreen == Obj(("color" :> Leaf("green")) @@ ("nest" :> Obj("x" :> Leaf("3"))))
RGrey == Obj(("color" :> Leaf("grey")) @@ ("pad" :> Leaf("4")))
OZ == Obj("z" :> Leaf("9"))

base == Theme("a", VBlue, FALSE)
strict == Theme("b", VRed, TRUE)
keyless == Theme(UNDEFINED, VRed, FALSE)

ThemeInputs == {base, strict, keyless}
ThemeKeyInputs == {"a", "b"}
DefaultOverridesInputs == {Null, RGrey}
OverridesInputs == {EmptyObj, OGreen}
StyleOverridesInputs == {EmptyObj, OZ}

\* makeTheme({theme, a11y}): the use method closes over theme and a11y
makeTheme(theme, a11y) == [theme |-> theme, a11y |-> a11y]
MadeThemes == {makeTheme(base, strict), makeTheme(base, Undef)}

FBrand == Fn("base", "a" :> "brand")
FPlain == Fn("plain", "b" :> "thrower")
FBase == Fn("base", EmptyFn)
ComponentInputs ==
    {<<"Sym(K)", FBrand>>, <<"Sym(K)", FPlain>>, <<"strK", FPlain>>,
     <<"Sym(K)", NotFn>>, <<"Sym(L)", FBase>>}

\* a registry object with every top-level key validateRegistry looks for,
\* and no default components bucket
BareRegistry ==
    [defaultThemeKey |-> NULL,
     components |-> EmptyFn,
     themes |-> EmptyFn,
     registered |-> << >>,
     overrides |-> Undef]

----------------------------------------------------------------------------
(* The calls *)

Call0(op, i) == [op |-> op, inst |-> i, ref |-> NoReg]

GetRegistry(i) ==
    /\ Collect(windowAfterGet(i), GLOBAL_THEME_REGISTRY, heap,
               [op |-> "getRegistry", inst |-> i, ref |-> getRegistry(i)])
    /\ UNCHANGED <<canUseDOM, uidCount>>

SetRegistry(i, r) ==
    /\ Collect(IF canUseDOM THEN r ELSE window,
               [GLOBAL_THEME_REGISTRY EXCEPT ![i] = r], heap,
               [op |-> "setRegistry", inst |-> i, ref |-> r])
    /\ UNCHANGED <<canUseDOM, uidCount>>

\* setRegistry(registry) with an object the caller built
SetRegistryTo(i, registry) ==
    /\ Collect(IF canUseDOM THEN Fresh ELSE window,
               [GLOBAL_THEME_REGISTRY EXCEPT ![i] = Fresh],
               (Fresh :> registry) @@ heap,
               [op |-> "setRegistry", inst |-> i, ref |-> Fresh])
    /\ UNCHANGED <<canUseDOM, uidCount>>

ClearRegistry_localOnly(i) ==
    /\ Collect(window,
               [GLOBAL_THEME_REGISTRY EXCEPT ![i] = Fresh],
               (Fresh :> makeRegistry) @@ heap,
               Call0("clearRegistry", i) @@
               [populated |-> TheRegistry(i) # makeRegistry])
    /\ UNCHANGED <<canUseDOM, uidCount>>

ClearRegistry(i) ==
    /\ Collect(IF canUseDOM THEN Fresh ELSE window,
               [GLOBAL_THEME_REGISTRY EXCEPT ![i] = Fresh],
               (Fresh :> makeRegistry) @@ heap,
               Call0("clearRegistry", i) @@
               [populated |-> TheRegistry(i) # makeRegistry])
    /\ UNCHANGED <<canUseDOM, uidCount>>

GetDefaultThemeKey(i) ==
    /\ Touch(i, TheRegistry(i),
             Call0("getDefaultThemeKey", i) @@
             [ret |-> getDefaultThemeKey(TheRegistry(i))])
    /\ UNCHANGED <<canUseDOM, uidCount>>

SetDefaultTheme(i, themeKey, overrides, immutable) ==
    /\ Touch(i, setDefaultTheme(TheRegistry(i), themeKey, overrides, immutable),
             Call0("setDefaultTheme", i) @@
             [themeKey |-> themeKey, overrides |-> overrides,
              immutable |-> immutable,
              found |-> themeKey \in DOMAIN TheRegistry(i).themes,
              variables |->
                  getRegisteredTheme(TheRegistry(i), themeKey, EmptyTheme).variables])
    /\ UNCHANGED <<canUseDOM, uidCount>>

RegisterTheme(i, theme) ==
    /\ Len(TheRegistry(i).registered) < MaxRegistered
    /\ Falsy(theme.key) => uidCount < MaxUid
    /\ Touch(i, registerTheme(TheRegistry(i), theme, uidCount),
             Call0("registerTheme", i) @@
             [theme |-> theme,
              key |-> IF ~Falsy(theme.key) THEN theme.key ELSE uid(uidCount)])
    /\ uidCount' = IF Falsy(theme.key) THEN uidCount + 1 ELSE uidCount
    /\ UNCHANGED canUseDOM

Use_passOverrides(i, made, accessible, overrides) ==
    /\ LET l == Call0("use", i) @@
                [made |-> made, accessible |-> accessible, overrides |-> overrides]
       IN  IF accessible /\ made.a11y = Undef
           THEN /\ last' = l @@ [threw |-> TRUE]
                /\ UNCHANGED <<window, GLOBAL_THEME_REGISTRY, heap>>
           ELSE Touch(i, setDefaultTheme(TheRegistry(i),
                            IF accessible THEN made.a11y.key ELSE made.theme.key,
                            overrides, accessible),
                      l @@ [threw |-> FALSE])
    /\ UNCHANGED <<canUseDOM, uidCount>>

\* made.use({accessible, overrides}); reading a11y.key of an absent a11y
\* raises a TypeError before the registry is touched
Use(i, made, accessible, overrides) ==
    /\ LET l == Call0("use", i) @@
                [made |-> made, accessible |-> accessible, overrides |-> overrides]
       IN  IF accessible
           THEN IF made.a11y = Undef
                THEN /\ last' = l @@ [threw |-> TRUE]
                     /\ UNCHANGED <<window, GLOBAL_THEME_REGISTRY, heap>>
                ELSE Touch(i, setDefaultTheme(TheRegistry(i), made.a11y.key, Null, TRUE),
                           l @@ [threw |-> FALSE])
           ELSE Touch(i, setDefaultTheme(TheRegistry(i), made.theme.key, overrides, FALSE),
                      l @@ [threw |-> FALSE])
    /\ UNCHANGED <<canUseDOM, uidCount>>

RegisterComponentTheme(i, componentKey, f) ==
    /\ Touch(i, registerComponentTheme(TheRegistry(i), componentKey, f),
             Call0("registerComponentTheme", i) @@
             [componentKey |-> componentKey, fn |-> f,
              threw |-> registerComponentThemeThrows(TheRegistry(i), f)])
    /\ UNCHANGED <<canUseDOM, uidCount>>

GenerateTheme(i, themeKey, overrides) ==
    /\ Touch(i, TheRegistry(i),
             Call0("generateTheme", i) @@
             [themeKey |-> themeKey, overrides |-> overrides,
              variables |-> mergeWithDefaultThemeVariables(TheRegistry(i), themeKey, overrides),
              ret |-> generateTheme(TheRegistry(i), themeKey, overrides)])
    /\ UNCHANGED <<canUseDOM, uidCount>>

GenerateComponentTheme(i, componentKey, themeKey, overrides) ==
    /\ Touch(i, TheRegistry(i),
             Call0("generateComponentTheme", i) @@
             [componentKey |-> componentKey, themeKey |-> themeKey,
              overrides |-> overrides,
              ret |-> generateComponentTheme(TheRegistry(i), componentKey, themeKey, overrides)])
    /\ UNCHANGED <<canUseDOM, uidCount>>

\* the private overrideThemeVariables, as mergeWithDefaultThemeVariables calls it
OverrideThemeVariables(i, themeKey, overrides) ==
    /\ Touch(i, TheRegistry(i),
             Call0("overrideThemeVariables", i) @@
             [themeKey |-> themeKey, overrides |-> overrides,
              ret |-> overrideThemeVariables(TheRegistry(i), themeKey, overrides)])
    /\ UNCHANGED <<canUseDOM, uidCount>>

GetTheme(i, themeKey) ==
    /\ Touch(i, TheRegistry(i),
             Call0("getTheme", i) @@
             [themeKey |-> themeKey, ret |-> getTheme(TheRegistry(i), themeKey)])
    /\ UNCHANGED <<canUseDOM, uidCount>>

----------------------------------------------------------------------------
(* Specification: one module instance *)

Load(n) ==
    /\ canUseDOM \in BOOLEAN
    /\ window = NoReg
    /\ GLOBAL_THEME_REGISTRY = [i \in 1..n |-> i]
    /\ heap = [i \in 1..n |-> makeRegistry]
    /\ uidCount = 0
    /\ last = Call0("load", 0)

Init == Load(1)

\* the calls on themes, defaults and variables
Next ==
    \/ \E i \in Instances : GetRegistry(i)
    \/ \E i \in Instances, r \in DOMAIN heap : SetRegistry(i, r)
    \/ \E i \in Instances : ClearRegistry(i)
    \/ \E i \in Instances : GetDefaultThemeKey(i)
    \/ \E i \in Instances, k \in ThemeKeyInputs, o \in DefaultOverridesInputs,
          m \in BOOLEAN :
            SetDefaultTheme(i, k, o, m)
    \/ \E i \in Instances, t \in ThemeInputs : RegisterTheme(i, t)
    \/ \E i \in Instances, made \in MadeThemes, a \in BOOLEAN, o \in {Undef, RGrey} :
            Use(i, made, a, o)
    \/ \E i \in Instances, k \in ThemeKeyInputs \cup {UNDEFINED}, o \in OverridesInputs :
            GenerateTheme(i, k, o)
    \/ \E i \in Instances, k \in ThemeKeyInputs, o \in OverridesInputs :
            OverrideThemeVariables(i, k, o)
    \/ \E i \in Instances, k \in ThemeKeyInputs : GetTheme(i, k)

Spec == Init /\ [][Next]_vars

\* the calls on component style functions
NextComponents ==
    \/ \E i \in Instances : ClearRegistry(i)
    \/ \E i \in Instances : SetRegistryTo(i, BareRegistry)
    \/ \E i \in Instances, k \in ThemeKeyInputs, m \in BOOLEAN :
            SetDefaultTheme(i, k, Null, m)
    \/ \E i \in Instances, t \in {base, strict} : RegisterTheme(i, t)
    \/ \E i \in Instances, c \in ComponentInputs :
            RegisterComponentTheme(i, c[1], c[2])
    \/ \E i \in Instances, k \in ThemeKeyInputs \cup {UNDEFINED} :
            GenerateTheme(i, k, EmptyObj)
    \/ \E i \in Instances, c \in {"Sym(K)", "strK"},
          k \in ThemeKeyInputs \cup {UNDEFINED}, o \in StyleOverridesInputs :
            GenerateComponentTheme(i, c, k, o)

SpecComponents == Init /\ [][NextComponents]_vars

\* two independently loaded module instances
InitShared == Load(2)

NextShared ==
    \/ \E i \in Instances : GetRegistry(i)
    \/ \E i \in Instances, r \in DOMAIN heap : SetRegistry(i, r)
    \/ \E i \in Instances : ClearRegistry(i)
    \/ \E i \in Instances : GetDefaultThemeKey(i)
    \/ \E i \in Instances, t \in {base, strict} : RegisterTheme(i, t)
    \/ \E i \in Instances : RegisterComponentTheme(i, "Sym(K)", FBrand)

SpecShared == InitShared /\ [][NextShared]_vars

\* the calls that register themes and components, set the default and clear
NextRegistered ==
    \/ \E i \in Instances : ClearRegistry(i)
    \/ \E i \in Instances, k \in ThemeKeyInputs, o \in DefaultOverridesInputs,
          m \in BOOLEAN :
            SetDefaultTheme(i, k, o, m)
    \/ \E i \in Instances, t \in ThemeInputs : RegisterTheme(i, t)
    \/ \E i \in Instances, c \in {<<"Sym(K)", FBrand>>, <<"strK", FPlain>>} :
            RegisterComponentTheme(i, c[1], c[2])

SpecRegistered == Init /\ [][NextRegistered]_vars

----------------------------------------------------------------------------
(* Properties *)

\* the registry the last call worked on
LastRegistry == TheRegistry(last.inst)

\* C1: overrideThemeVariables on a theme that is immutable, with non-empty
\* overrides, returns exactly the theme's stored variables.
C1_ImmutableVariablesVerbatim ==
    (/\ last.op = "overrideThemeVariables"
     /\ NonEmpty(last.overrides)
     /\ last.themeKey \in DOMAIN LastRegistry.themes
     /\ LastRegistry.themes[last.themeKey].immutable)
    => last.ret = LastRegistry.themes[last.themeKey].variables

C1_Witness ==
    /\ last.op = "overrideThemeVariables"
    /\ NonEmpty(last.overrides)
    /\ last.themeKey \in DOMAIN LastRegistry.themes
    /\ LastRegistry.themes[last.themeKey].immutable
    /\ isObject(LastRegistry.themes[last.themeKey].variables)
    /\ last.ret = VRed

\* C2: getDefaultThemeKey() is the explicit defaultThemeKey when one is set,
\* else the first registered key, else the reserved default key.
C2_DefaultThemeKeyPreference ==
    \A i \in Instances :
        LET reg == TheRegistry(i)
        IN  getDefaultThemeKey(reg) =
                IF reg.defaultThemeKey \notin {NULL, UNDEFINED}
                THEN reg.defaultThemeKey
                ELSE IF reg.registered # << >> THEN Head(reg.registered)
                     ELSE "@@themeableDefaultTheme"

C2_Witness ==
    /\ last.op = "getDefaultThemeKey"
    /\ LastRegistry.defaultThemeKey = "a"
    /\ Len(LastRegistry.registered) = 2
    /\ Head(LastRegistry.registered) = "b"
    /\ last.ret = "a"

HasDuplicates(seq) == \E j, m \in DOMAIN seq : j # m /\ seq[j] = seq[m]

\* C3 as stated: registered never holds a key twice, and a registration puts
\* its key last.
C3_Original ==
    /\ \A i \in Instances : ~HasDuplicates(TheRegistry(i).registered)
    /\ last.op = "registerTheme" =>
            LastRegistry.registered[Len(LastRegistry.registered)] = last.key

\* C3 amended: every registerTheme call appends its key to registered, also
\* when the key is registered already, and stores the theme under the key.
C3_EveryRegistrationAppends ==
    [][\A i \in Instances :
        (last'.op = "registerTheme" /\ last'.inst = i) =>
            /\ LastRegistry'.registered =
                    Append(TheRegistry(i).registered, last'.key)
            /\ LastRegistry'.themes[last'.key] = last'.theme]_vars

C3_Witness ==
    /\ last.op = "registerTheme"
    /\ LastRegistry.registered = <<"a", "a">>

\* In the state after generateComponentTheme(componentKey, themeKey, overrides):
\* the theme key it resolves for, the variables it hands to the style
\* function, and the entry it finds for the component
LastT == IF ~Falsy(last.themeKey) THEN last.themeKey
         ELSE getDefaultThemeKey(LastRegistry)
LastVariables == mergeWithDefaultThemeVariables(LastRegistry, last.themeKey, Undef)
LastRegistered == last.componentKey \in DOMAIN getRegisteredComponents(LastRegistry, LastT)
LastEntry == getRegisteredComponents(LastRegistry, LastT)[last.componentKey]
LastCalled == Call(LastEntry, LastVariables)
\* the style function's result, empty when there is none or it throws
LastStyle == IF LastRegistered /\ ~isThrown(LastCalled) THEN LastCalled ELSE EmptyObj
LastImmutable == getRegisteredTheme(LastRegistry, LastT, EmptyTheme).immutable

\* b's value wins on every key of b, a's value stays on the others
IsShallowMerge(r, a, b) ==
    /\ isObject(r)
    /\ Keys(r) = Keys(a) \cup Keys(b)
    /\ \A k \in Keys(b) : r.obj[k] = b.obj[k]
    /\ \A k \in Keys(a) \ Keys(b) : r.obj[k] = a.obj[k]

\* C4: with non-empty overrides, generateComponentTheme returns the style
\* function's result untouched when theme t is immutable, and that result
\* shallow-merged with the overrides (overrides winning) when it is not.
C4_ComponentOverridesGuarded ==
    (last.op = "generateComponentTheme" /\ NonEmpty(last.overrides)) =>
        IF LastImmutable
        THEN last.ret = LastStyle
        ELSE IsShallowMerge(last.ret, LastStyle, last.overrides)

C4_Witness ==
    /\ last.op = "generateComponentTheme"
    /\ last.overrides = OZ
    /\ last.themeKey = "b"
    /\ LastImmutable
    /\ LastRegistered
    /\ last.ret = Obj(("color" :> Leaf("red")) @@ ("z" :> Leaf("1")))

\* C7: when the component's style function (or its specialization for the
\* theme) throws, generateComponentTheme still returns, and returns what an
\* empty style object gives.
C7_StyleFunctionExceptionCaught ==
    (last.op = "generateComponentTheme" /\ LastRegistered /\ isThrown(LastCalled)) =>
        /\ ~isThrown(last.ret)
        /\ last.ret = IF NonEmpty(last.overrides) /\ LastImmutable
                      THEN EmptyObj
                      ELSE Spread(EmptyObj, last.overrides)

C7_Witness ==
    /\ last.op = "generateComponentTheme"
    /\ LastRegistered
    /\ "wrap" \in DOMAIN LastEntry
    /\ ~isThrown(Apply(LastEntry.wrap.body, LastVariables))
    /\ isThrown(Apply(LastEntry.wrap.props[LastT], LastVariables))
    /\ last.ret = OZ

\* C8: generateComponentTheme(K, t, {}) is fn(variables) shallow-merged with
\* fn[t](variables), the specialization winning, when K was registered with
\* a function fn carrying a specialization for t; with no specialization for
\* t it is fn(variables) of the function K is registered with.
C8_SpecializationMerged ==
    (/\ last.op = "generateComponentTheme"
     /\ last.overrides = EmptyObj
     /\ LastRegistered
     /\ ~isThrown(LastCalled)) =>
        IF /\ LastT # DEFAULT_THEME_KEY
           /\ last.componentKey \in DOMAIN Bucket(LastRegistry, LastT)
        THEN LET fn == Bucket(LastRegistry, LastT)[last.componentKey].wrap
             IN  IsShallowMerge(last.ret, Apply(fn.body, LastVariables),
                                Apply(fn.props[LastT], LastVariables))
        ELSE LET fn == Bucket(LastRegistry, DEFAULT_THEME_KEY)[last.componentKey].raw
             IN  last.ret = Apply(fn.body, LastVariables)

C8_Witness ==
    /\ last.op = "generateComponentTheme"
    /\ last.overrides = EmptyObj
    /\ last.themeKey = "a"
    /\ last.componentKey \in DOMAIN Bucket(LastRegistry, "a")
    /\ last.ret = Obj(("color" :> Leaf("blue")) @@ ("bg" :> Leaf("blue"))
                       @@ ("z" :> Leaf("2")))

\* In the state after generateTheme(themeKey, overrides): the named theme and
\* the default theme
LastNamed == getRegisteredTheme(LastRegistry, last.themeKey, EmptyTheme)
LastDefault ==
    getRegisteredTheme(LastRegistry, getDefaultThemeKey(LastRegistry), EmptyTheme)

\* C5: generateTheme for an immutable theme T, the default theme D being
\* another, mutable theme, hands the style functions
\* deep-merge(D.variables, T.variables), whatever the overrides.
C5_ImmutableThemeOverDefault ==
    (/\ last.op = "generateTheme"
     /\ last.themeKey \in DOMAIN LastRegistry.themes
     /\ LastNamed.immutable
     /\ getDefaultThemeKey(LastRegistry) # last.themeKey
     /\ ~LastDefault.immutable) =>
        last.variables = mergeDeep(LastDefault.variables, LastNamed.variables)

C5_Witness ==
    /\ last.op = "generateTheme"
    /\ last.themeKey = "b"
    /\ last.overrides = OGreen
    /\ LastNamed = strict
    /\ getDefaultThemeKey(LastRegistry) = "a"
    /\ LastDefault = base
    /\ last.variables =
            Obj(("color" :> Leaf("red")) @@
                ("nest" :> Obj(("x" :> Leaf("1")) @@ ("y" :> Leaf("2")))))

\* C6: after setDefaultTheme(k, R, false) on a registered theme k with
\* variables V, the default theme key is k and the variables resolved with
\* no theme key and overrides O are deep-merge(V, deep-merge(R, O)).
C6_DefaultOverridesLayering ==
    (last.op = "setDefaultTheme" /\ ~last.immutable /\ last.found) =>
        /\ getDefaultThemeKey(LastRegistry) = last.themeKey
        /\ \A o \in OverridesInputs \cup {Undef, RGrey} :
                mergeWithDefaultThemeVariables(LastRegistry, UNDEFINED, o) =
                    mergeDeep(last.variables, mergeDeep(last.overrides, o))

C6_Witness ==
    /\ last.op = "setDefaultTheme"
    /\ ~last.immutable
    /\ last.found
    /\ last.themeKey = "a"
    /\ last.variables = VBlue
    /\ last.overrides = RGrey
    /\ LastRegistry.registered[1] = "b"
    /\ mergeWithDefaultThemeVariables(LastRegistry, UNDEFINED, OGreen) =
            Obj(("color" :> Leaf("green")) @@ ("pad" :> Leaf("4")) @@
                ("nest" :> Obj("x" :> Leaf("3"))))
    /\ mergeWithDefaultThemeVariables(LastRegistry, UNDEFINED, EmptyObj) =
            Obj(("color" :> Leaf("grey")) @@ ("pad" :> Leaf("4")) @@
                ("nest" :> Obj("x" :> Leaf("1"))))

\* C9: where the window slot exists every module instance's getRegistry()
\* returns the registry in the slot once any call has been made, so a theme
\* registered through one instance is in the registry of all; and in either
\* environment getRegistry() right after setRegistry(r) returns r.
C9_OneSharedRegistry ==
    /\ (canUseDOM /\ last.op # "load") =>
            \A i \in Instances : getRegistry(i) = window /\ window # NoReg
    /\ (canUseDOM /\ last.op = "getRegistry") =>
            \A i \in Instances : getRegistry(i) = last.ref
    /\ (canUseDOM /\ last.op = "registerTheme") =>
            \A i \in Instances :
                /\ last.key \in DOMAIN TheRegistry(i).themes
                /\ TheRegistry(i).themes[last.key] = last.theme
    /\ last.op = "setRegistry" => getRegistry(last.inst) = last.ref

C9_Witness ==
    /\ canUseDOM
    /\ last.op = "registerTheme"
    /\ last.inst = 1
    /\ GLOBAL_THEME_REGISTRY[1] # GLOBAL_THEME_REGISTRY[2]
    /\ window # GLOBAL_THEME_REGISTRY[1]
    /\ last.key \in DOMAIN TheRegistry(2).themes

\* C10: after use({accessible: truthy}) the default theme key is a11y.key,
\* the default overrides are null and the stored a11y theme is immutable;
\* after use({accessible: falsy, overrides: O}) the default theme key is
\* theme.key, the default overrides are O and the stored base theme is not
\* immutable.
C10_UseActivates ==
    (last.op = "use" /\ ~last.threw) =>
        IF last.accessible
        THEN /\ LastRegistry.defaultThemeKey = last.made.a11y.key
             /\ getDefaultThemeKey(LastRegistry) = last.made.a11y.key
             /\ LastRegistry.overrides = Null
             /\ LastRegistry.themes[last.made.a11y.key].immutable
        ELSE /\ LastRegistry.defaultThemeKey = last.made.theme.key
             /\ getDefaultThemeKey(LastRegistry) = last.made.theme.key
             /\ LastRegistry.overrides = last.overrides
             /\ ~LastRegistry.themes[last.made.theme.key].immutable

C10_Witness ==
    /\ last.op = "use"
    /\ ~last.threw
    /\ ~last.accessible
    /\ last.overrides = RGrey
    /\ "b" \in DOMAIN LastRegistry.themes
    /\ LastRegistry.themes["b"].immutable
    /\ LastRegistry.themes["a"] = base
    /\ LastRegistry.defaultThemeKey = "a"
    /\ LastRegistry.overrides = RGrey

\* C11: use({accessible: true}) on a theme made without an accessible
\* variant completes without throwing.
C11_MissingA11yNonFatal ==
    (last.op = "use" /\ last.accessible /\ last.made.a11y = Undef) => ~last.threw

\* C12: registerTheme on a theme with no key stores the theme under a fresh
\* identifier, appends the identifier to registered, and the stored theme's
\* key field is that identifier.
C12_KeylessThemeGetsKey ==
    (last.op = "registerTheme" /\ Falsy(last.theme.key)) =>
        /\ last.key \in DOMAIN LastRegistry.themes
        /\ LastRegistry.registered[Len(LastRegistry.registered)] = last.key
        /\ LastRegistry.themes[last.key].key = last.key

HasDefaultBucket(reg) == "@@themeableDefaultTheme" \in DOMAIN reg.components

\* the component-function set resolved for theme key t is the default bucket
\* when t has no bucket of its own, and t's bucket laid over the default
\* bucket, t's entry winning, when it has
FallsBackToDefaultBucket(reg, themeKey) ==
    LET t == IF ~Falsy(themeKey) THEN themeKey ELSE getDefaultThemeKey(reg)
        set == getRegisteredComponents(reg, themeKey)
        d == IF HasDefaultBucket(reg)
             THEN reg.components["@@themeableDefaultTheme"] ELSE EmptyFn
    IN  IF t \notin DOMAIN reg.components
        THEN set = d
        ELSE /\ DOMAIN set = DOMAIN d \cup DOMAIN reg.components[t]
             /\ \A k \in DOMAIN reg.components[t] : set[k] = reg.components[t][k]
             /\ \A k \in DOMAIN d \ DOMAIN reg.components[t] : set[k] = d[k]

\* C13 as stated: the live registry always has the default components bucket
\* and resolution falls back to it.
C13_Original ==
    \A i \in Instances :
        /\ HasDefaultBucket(TheRegistry(i))
        /\ \A t \in ThemeKeyInputs \cup {UNDEFINED} :
                FallsBackToDefaultBucket(TheRegistry(i), t)

\* C13 amended: setRegistry installs the registry it is given as it is; every
\* other operation keeps the default bucket of a registry that has one and
\* clearRegistry installs a registry that has one; resolution falls back to
\* the default bucket.
C13_DefaultBucketKept ==
    [][\A i \in Instances :
        /\ (last'.op # "setRegistry" /\ HasDefaultBucket(TheRegistry(i))) =>
                HasDefaultBucket(TheRegistry(i)')
        /\ last'.op = "clearRegistry" => HasDefaultBucket(LastRegistry')
        /\ \A t \in ThemeKeyInputs \cup {UNDEFINED} :
                FallsBackToDefaultBucket(TheRegistry(i)', t)]_vars

C13_Witness ==
    /\ last.op = "registerComponentTheme"
    /\ ~last.threw
    /\ HasDefaultBucket(LastRegistry)
    /\ DOMAIN LastRegistry.components = {"@@themeableDefaultTheme", "a"}
    /\ "Sym(K)" \in DOMAIN LastRegistry.components["a"]
    /\ DOMAIN LastRegistry.components["@@themeableDefaultTheme"] = {"Sym(K)", "Sym(L)"}
    /\ getRegisteredComponents(LastRegistry, "b") =
            LastRegistry.components["@@themeableDefaultTheme"]
    /\ getRegisteredComponents(LastRegistry, "a")["Sym(K)"] =
            makeComponentTheme(FBrand, "a")

\* In the state after generateTheme(themeKey, overrides): the combined
\* components bucket
LastComponents == getRegisteredComponents(LastRegistry, last.themeKey)

\* C14 as stated: the mapping generateTheme returns has an entry for every
\* component key of the combined bucket, whatever the kind of the key: the
\* component's style function applied to the resolved variables.
C14_Original ==
    (last.op = "generateTheme" /\ ~isThrown(last.ret)) =>
        /\ Keys(last.ret) = DOMAIN LastComponents
        /\ \A k \in DOMAIN LastComponents :
                last.ret.obj[k] = Call(LastComponents[k], last.variables)

\* C14 amended: when no style function throws, the mapping has an entry for
\* every Symbol component key of the combined bucket, and no other entry;
\* components registered under a string key are left out.
C14_SymbolKeysOnly ==
    (last.op = "generateTheme" /\ ~isThrown(last.ret)) =>
        /\ \A k \in DOMAIN LastComponents :
                isSymbol(k) =>
                    /\ k \in Keys(last.ret)
                    /\ last.ret.obj[k] = Call(LastComponents[k], last.variables)
        /\ \A k \in Keys(last.ret) : k \in DOMAIN LastComponents /\ isSymbol(k)

C14_Witness ==
    /\ last.op = "generateTheme"
    /\ ~isThrown(last.ret)
    /\ DOMAIN LastComponents = {"Sym(K)", "Sym(L)", "strK"}
    /\ Keys(last.ret) = {"Sym(K)", "Sym(L)"}
    /\ last.ret.obj["Sym(K)"] = Obj("w" :> Leaf("0"))

\* C15: after clearRegistry() the live registry has no themes, an empty
\* registered, no default theme key, only an empty default components bucket
\* and no default overrides, and getDefaultThemeKey() gives the reserved key.
C15_ClearedRegistryEmpty ==
    last.op = "clearRegistry" =>
        /\ DOMAIN LastRegistry.themes = {}
        /\ Len(LastRegistry.registered) = 0
        /\ LastRegistry.defaultThemeKey = NULL
        /\ DOMAIN LastRegistry.components = {"@@themeableDefaultTheme"}
        /\ DOMAIN LastRegistry.components["@@themeableDefaultTheme"] = {}
        /\ LastRegistry.overrides = Undef
        /\ getDefaultThemeKey(LastRegistry) = "@@themeableDefaultTheme"

C15_Witness ==
    /\ last.op = "clearRegistry"
    /\ last.populated
    /\ canUseDOM
    /\ window = GLOBAL_THEME_REGISTRY[last.inst]
    /\ DOMAIN LastRegistry.themes = {}

\* C16: when the style function generateTheme calls for some component
\* throws, generateTheme throws: no mapping is returned, not even for the
\* components whose style functions return.
C16_BulkGenerationAborts ==
    (/\ last.op = "generateTheme"
     /\ \E k \in DOMAIN LastComponents :
            isSymbol(k) /\ isThrown(Call(LastComponents[k], last.variables))) =>
        isThrown(last.ret)

C16_Witness ==
    /\ last.op = "generateTheme"
    /\ last.themeKey = "b"
    /\ {"Sym(K)", "Sym(L)"} \subseteq DOMAIN LastComponents
    /\ isThrown(Call(LastComponents["Sym(K)"], last.variables))
    /\ ~isThrown(Call(LastComponents["Sym(L)"], last.variables))
    /\ isThrown(last.ret)

\* C17: with an immutable default theme D and a themeKey that names another
\* theme T whose first-stage variables (overrides merged into T, guarded by
\* T's immutability) are non-empty, mergeWithDefaultThemeVariables returns
\* D.variables: neither T's variables nor the overrides get through.
C17_ImmutableDefaultBlocksNamed ==
    (/\ last.op = "generateTheme"
     /\ ~Falsy(last.themeKey)
     /\ getDefaultThemeKey(LastRegistry) # last.themeKey
     /\ LastDefault.immutable
     /\ NonEmpty(overrideThemeVariables(LastRegistry, last.themeKey, last.overrides))) =>
        last.variables = LastDefault.variables

C17_Witness ==
    /\ last.op = "generateTheme"
    /\ last.themeKey = "a"
    /\ last.overrides = OGreen
    /\ getDefaultThemeKey(LastRegistry) = "b"
    /\ {"a", "b"} \subseteq DOMAIN LastRegistry.themes
    /\ LastDefault.immutable
    /\ ~LastNamed.immutable
    /\ overrideThemeVariables(LastRegistry, "a", OGreen) = mergeDeep(VBlue, OGreen)
    /\ last.variables = VRed

\* the overrides a caller may pass
CallerOverrides == {Undef, EmptyObj, OGreen, RGrey}

\* the themes the last call resolves have variables
LastVariablesDefined ==
    /\ isObject(LastDefault.variables)
    /\ last.themeKey \in DOMAIN LastRegistry.themes => isObject(LastNamed.variables)

\* C18: when the theme named by themeKey is immutable, or the default theme
\* is, the variables generateTheme hands to the style functions do not depend
\* on the caller's overrides: every override, empty or not, resolves to the
\* same variables, with themeKey given or omitted.
C18_OverridesDoNotInterfere ==
    (/\ last.op = "generateTheme"
     /\ LastNamed.immutable \/ LastDefault.immutable
     /\ LastVariablesDefined) =>
        \A o \in CallerOverrides :
            mergeWithDefaultThemeVariables(LastRegistry, last.themeKey, o) = last.variables

C18_Witness ==
    /\ last.op = "generateTheme"
    /\ last.themeKey = UNDEFINED
    /\ last.overrides = OGreen
    /\ LastRegistry.overrides = RGrey
    /\ LastDefault.immutable
    /\ LastVariablesDefined
    /\ last.variables = VRed
    /\ mergeWithDefaultThemeVariables(LastRegistry, UNDEFINED, EmptyObj) = VRed

\* C19: when generateTheme(themeKey, {}) returns, its entry for every Symbol
\* component key K of the combined bucket equals
\* generateComponentTheme(K, themeKey, {}).
C19_BulkAgreesWithSingle ==
    (/\ last.op = "generateTheme"
     /\ last.overrides = EmptyObj
     /\ ~isThrown(last.ret)) =>
        \A K \in DOMAIN LastComponents :
            isSymbol(K) =>
                /\ K \in Keys(last.ret)
                /\ last.ret.obj[K] =
                       generateComponentTheme(LastRegistry, K, last.themeKey, EmptyObj)

C19_Witness ==
    /\ last.op = "generateTheme"
    /\ last.overrides = EmptyObj
    /\ last.themeKey = "a"
    /\ ~isThrown(last.ret)
    /\ "Sym(K)" \in Keys(last.ret)
    /\ "wrap" \in DOMAIN LastComponents["Sym(K)"]
    /\ last.ret.obj["Sym(K)"] = generateComponentTheme(LastRegistry, "Sym(K)", "a", EmptyObj)
    /\ last.ret.obj["Sym(K)"] #
           Call(Bucket(LastRegistry, DEFAULT_THEME_KEY)["Sym(K)"], last.variables)

\* the caller's function an entry of a bucket calls
StyleOf(entry) == IF "raw" \in DOMAIN entry THEN entry.raw ELSE entry.wrap

\* the component keys the last call looks up
LastLookedUp ==
    IF last.op = "generateComponentTheme" THEN {last.componentKey}
    ELSE {k \in ComponentKeys : isSymbol(k)}

\* C20: the entry a generateTheme or generateComponentTheme call invokes for
\* component K calls the function of K's latest registration (the one the
\* default bucket holds), whatever the theme key.
C20_LastRegistrationWins ==
    last.op \in {"generateTheme", "generateComponentTheme"} =>
        \A K \in LastLookedUp \cap DOMAIN LastComponents :
            K \in DOMAIN Bucket(LastRegistry, DEFAULT_THEME_KEY) =>
                StyleOf(LastComponents[K]) =
                    StyleOf(Bucket(LastRegistry, DEFAULT_THEME_KEY)[K])

\* the keys in registry.registered
RegisteredKeys(reg) == {reg.registered[j] : j \in DOMAIN reg.registered}

RegisteredHaveThemes ==
    \A i \in Instances : RegisteredKeys(TheRegistry(i)) \subseteq DOMAIN TheRegistry(i).themes

SetDefaultThemeKeepsRegistered ==
    \A i \in Instances :
        (last'.op = "setDefaultTheme" /\ last'.inst = i) =>
            /\ last'.themeKey \in DOMAIN TheRegistry(i)'.themes
            /\ TheRegistry(i)'.registered = TheRegistry(i).registered
            /\ TheRegistry(i)'.components = TheRegistry(i).components

\* C21: after any sequence of registerTheme, setDefaultTheme,
\* registerComponentTheme and clearRegistry calls every key in registered
\* has an entry in themes; setDefaultTheme stores a themes entry for its key
\* and leaves registered and components as they were, so themes may hold keys
\* that registered does not.
C21_RegisteredHaveThemes ==
    []RegisteredHaveThemes /\ [][SetDefaultThemeKeepsRegistered]_vars

C21_Witness ==
    /\ last.op = "setDefaultTheme"
    /\ ~last.found
    /\ last.themeKey \in DOMAIN LastRegistry.themes
    /\ last.themeKey \notin RegisteredKeys(LastRegistry)
    /\ uid(0) \in RegisteredKeys(LastRegistry)
    /\ Len(LastRegistry.registered) = MaxRegistered
    /\ "Sym(K)" \in DOMAIN Bucket(LastRegistry, DEFAULT_THEME_KEY)
    /\ RegisteredHaveThemes

====
